---- MODULE Spec2Model ----
(***************************************************************************)
(* A model of toylang's interpreter, src/main.rs: fn interpret reads a     *)
(* source file line by line into named sections of instructions, selects   *)
(* the first section named main and runs it against a value stack; jump    *)
(* and ifjmp splice the target section into the working instruction list.  *)
(*                                                                         *)
(* Text (&str / String) is a sequence of one-character strings, so that    *)
(* the line classification and the literal decoding are computed as the    *)
(* source computes them.                                                   *)
(***************************************************************************)
EXTENDS Integers, Sequences, FiniteSets, TLC

(***************************************************************************)
(* Bounds of the model.                                                    *)
(***************************************************************************)
\* usize is modelled UsizeBits wide (the arithmetic is that of usize, the
\* width is scaled down so that wrap-around is reachable).
UsizeBits == 3
\* The working instruction list is not spliced beyond this length.
MaxWork == 9
\* No jump is taken once more than this many writes went to standard output
\* (a jump that does not lengthen the working list can repeat for ever).
MaxOut == 40
\* The number of push lines that precede the operation in a stack program.
MaxPush == 3
\* The number of lines of a source drawn freely from the loader's lines.
MaxLines == 3

UsizeModulus == 2 ^ UsizeBits

(***************************************************************************)
(* Text helpers: str::starts_with, ends_with, contains, trim_matches,      *)
(* split_once, replace, to_lowercase.                                      *)
(***************************************************************************)
StartsWith(s, p) ==
    /\ Len(s) >= Len(p)
    /\ SubSeq(s, 1, Len(p)) = p

EndsWith(s, p) ==
    /\ Len(s) >= Len(p)
    /\ SubSeq(s, Len(s) - Len(p) + 1, Len(s)) = p

Contains(s, c) ==
    \E i \in 1..Len(s) : s[i] = c

RECURSIVE TrimStartMatches(_, _)
TrimStartMatches(s, c) ==
    IF s # <<>> /\ s[1] = c THEN TrimStartMatches(Tail(s), c) ELSE s

RECURSIVE TrimEndMatches(_, _)
TrimEndMatches(s, c) ==
    IF s # <<>> /\ s[Len(s)] = c
    THEN TrimEndMatches(SubSeq(s, 1, Len(s) - 1), c)
    ELSE s

TrimMatches(s, c) ==
    TrimEndMatches(TrimStartMatches(s, c), c)

\* line.split_once(" ").unwrap_or_else(|| (line, ""))
SplitOnce(text) ==
    IF Contains(text, " ")
    THEN LET i == CHOOSE k \in 1..Len(text) :
                      /\ text[k] = " "
                      /\ \A j \in 1..(k - 1) : text[j] # " "
         IN  <<SubSeq(text, 1, i - 1), SubSeq(text, i + 1, Len(text))>>
    ELSE <<text, <<>>>>

\* str::replace: every non-overlapping match of from, left to right.
RECURSIVE Replace(_, _, _)
Replace(s, from, to) ==
    IF s = <<>> THEN <<>>
    ELSE IF StartsWith(s, from)
    THEN to \o Replace(SubSeq(s, Len(from) + 1, Len(s)), from, to)
    ELSE <<s[1]>> \o Replace(Tail(s), from, to)

UpperLetters ==
    <<"A","B","C","D","E","F","G","H","I","J","K","L","M",
      "N","O","P","Q","R","S","T","U","V","W","X","Y","Z">>

LowerLetters ==
    <<"a","b","c","d","e","f","g","h","i","j","k","l","m",
      "n","o","p","q","r","s","t","u","v","w","x","y","z">>

ToLowerChar(c) ==
    IF \E i \in 1..Len(UpperLetters) : UpperLetters[i] = c
    THEN LowerLetters[CHOOSE i \in 1..Len(UpperLetters) : UpperLetters[i] = c]
    ELSE c

ToLowercase(s) ==
    [i \in 1..Len(s) |-> ToLowerChar(s[i])]

DigitChars ==
    <<"0","1","2","3","4","5","6","7","8","9">>

IsDigit(c) ==
    \E i \in 1..Len(DigitChars) : DigitChars[i] = c

DigitVal(c) ==
    (CHOOSE i \in 1..Len(DigitChars) : DigitChars[i] = c) - 1

AllDigits(s) ==
    \A i \in 1..Len(s) : IsDigit(s[i])

\* The number a digit string denotes, saturating just above limit (so that
\* the comparison with the type's maximum never needs a larger number).
RECURSIVE DecimalUpTo(_, _, _)
DecimalUpTo(s, acc, limit) ==
    IF s = <<>> THEN acc
    ELSE LET next == acc * 10 + DigitVal(s[1])
         IN  DecimalUpTo(Tail(s), IF next > limit THEN limit + 1 ELSE next, limit)

RECURSIVE Pow10(_)
Pow10(k) ==
    IF k = 0 THEN 1 ELSE 10 * Pow10(k - 1)

\* The decimal digits of a natural number (Display for usize).
RECURSIVE FmtNat(_)
FmtNat(n) ==
    IF n < 10 THEN <<DigitChars[n + 1]>>
    ELSE FmtNat(n \div 10) \o <<DigitChars[(n % 10) + 1]>>

(***************************************************************************)
(* enum DataType.  Every value is a record of the same shape: t the        *)
(* variant, n/d the number (d = 1 unless Float), s the text of a String.   *)
(***************************************************************************)
IntV(n) ==
    [t |-> "Int", n |-> n, d |-> 1, s |-> <<>>]

BoolV(b) ==
    [t |-> "Bool", n |-> IF b THEN 1 ELSE 0, d |-> 1, s |-> <<>>]

StringV(s) ==
    [t |-> "String", n |-> 0, d |-> 1, s |-> s]

Abs(x) ==
    IF x < 0 THEN 0 - x ELSE x

RECURSIVE Gcd(_, _)
Gcd(a, b) ==
    IF b = 0 THEN a ELSE Gcd(b, a % b)

\* An f64 is the rational n/d in lowest terms, d > 0.  The literals of the
\* model and the results of one operation on them are exactly representable.
FloatV(n, d) ==
    LET g == Gcd(Abs(n), d)
    IN  [t |-> "Float", n |-> n \div g, d |-> d \div g, s |-> <<>>]

NoValue ==
    [t |-> "None", n |-> 0, d |-> 1, s |-> <<>>]

(***************************************************************************)
(* enum Instructions.                                                      *)
(***************************************************************************)
Op(name) ==
    [op |-> name, val |-> NoValue, label |-> <<>>]

Push(v) ==
    [op |-> "Push", val |-> v, label |-> <<>>]

Jump(label) ==
    [op |-> "Jump", val |-> NoValue, label |-> label]

IfJmp(label) ==
    [op |-> "IfJmp", val |-> NoValue, label |-> label]

\* enum Program: Section(SectionName, Vec<Instructions>)
Section(name, instrs) ==
    [name |-> name, instructions |-> instrs]

MainName ==
    <<"m","a","i","n">>

(***************************************************************************)
(* Literal decoding: str::parse::<usize>, ::<f64>, and the push operand.   *)
(***************************************************************************)
\* usize::from_str: an optional '+', then one or more decimal digits, and
\* the number must fit the type.
ParseUsize(value) ==
    LET body == IF value # <<>> /\ value[1] = "+" THEN Tail(value) ELSE value
        n    == DecimalUpTo(body, 0, UsizeModulus - 1)
    IN  IF body # <<>> /\ AllDigits(body) /\ n < UsizeModulus
        THEN [ok |-> TRUE, val |-> IntV(n)]
        ELSE [ok |-> FALSE, val |-> NoValue]

\* f64::from_str on an operand that contains '.': an optional sign, digits,
\* one '.', digits, with at least one digit (exponent, inf and nan forms
\* are not among the lines of the model).
ParseF64(value) ==
    LET signed == value # <<>> /\ value[1] \in {"+", "-"}
        body   == IF signed THEN Tail(value) ELSE value
        dot    == CHOOSE k \in 1..Len(body) : body[k] = "."
        whole  == SubSeq(body, 1, dot - 1)
        frac   == SubSeq(body, dot + 1, Len(body))
        mag    == DecimalUpTo(whole \o frac, 0, 999999)
    IN  IF /\ Contains(body, ".")
           /\ AllDigits(whole) /\ AllDigits(frac)
           /\ Len(whole) + Len(frac) >= 1
        THEN [ok  |-> TRUE,
              val |-> FloatV(IF signed /\ value[1] = "-" THEN 0 - mag ELSE mag,
                             Pow10(Len(frac)))]
        ELSE [ok |-> FALSE, val |-> NoValue]

Decoded(instr) ==
    [err |-> "None", instr |-> instr]

ParseError(kind) ==
    [err |-> kind, instr |-> Op("Exit")]

\* The "push" arm of the decoder.
DecodePush(value) ==
    IF value = <<>> THEN ParseError("MissingOperand")
    ELSE IF StartsWith(value, <<"\"">>) /\ EndsWith(value, <<"\"">>)
    THEN Decoded(Push(StringV(
             Replace(Replace(TrimMatches(value, "\""),
                             <<"\\", "n">>, <<"\n">>),
                     <<"\\", "r">>, <<"\r">>))))
    ELSE IF Contains(value, ".")
    THEN IF ParseF64(value).ok
         THEN Decoded(Push(ParseF64(value).val))
         ELSE ParseError("InvalidLiteral")
    ELSE IF value = <<"t","r","u","e">> \/ value = <<"f","a","l","s","e">>
    THEN Decoded(Push(BoolV(value = <<"t","r","u","e">>)))
    ELSE IF ParseUsize(value).ok
         THEN Decoded(Push(ParseUsize(value).val))
         ELSE ParseError("InvalidLiteral")

\* The operand-free mnemonics, as the match on the lower-cased mnemonic
\* lists them.
Mnemonics ==
    << <<<<"e","q">>, "EQ">>, <<<<"n","e">>, "NE">>,
       <<<<"a","n","d">>, "And">>, <<<<"o","r">>, "Or">>,
       <<<<"n","o","t">>, "Not">>, <<<<"a","d","d">>, "Add">>,
       <<<<"s","u","b">>, "Sub">>, <<<<"m","u","l">>, "Mul">>,
       <<<<"d","i","v">>, "Div">>, <<<<"m","o","d">>, "Mod">>,
       <<<<"d","r","o","p">>, "Drop">>, <<<<"d","u","p">>, "Dup">>,
       <<<<"s","w","a","p">>, "Swap">>, <<<<"o","v","e","r">>, "Over">>,
       <<<<"r","o","t">>, "Rot">>, <<<<"p","r","i","n","t">>, "Print">>,
       <<<<"e","x","i","t">>, "Exit">> >>

\* Fault injection: a line with an unknown mnemonic is read as a drop
\* instead of stopping the loader.
DecodeLineLenient(text) ==
    LET mnemonic == ToLowercase(SplitOnce(text)[1])
        value    == SplitOnce(text)[2]
    IN  IF mnemonic = <<"p","u","s","h">> THEN DecodePush(value)
        ELSE IF \E i \in 1..Len(Mnemonics) : Mnemonics[i][1] = mnemonic
        THEN Decoded(Op(Mnemonics[CHOOSE i \in 1..Len(Mnemonics) :
                                      Mnemonics[i][1] = mnemonic][2]))
        ELSE IF mnemonic = <<"j","u","m","p">>
        THEN IF value = <<>> THEN ParseError("MissingOperand")
             ELSE Decoded(Jump(value))
        ELSE IF mnemonic = <<"i","f","j","m","p">>
        THEN IF value = <<>> THEN ParseError("MissingOperand")
             ELSE Decoded(IfJmp(value))
        ELSE Decoded(Op("Drop"))

\* One instruction line to an instruction, or the panic of the decoder.
DecodeLine(text) ==
    LET mnemonic == ToLowercase(SplitOnce(text)[1])
        value    == SplitOnce(text)[2]
    IN  IF mnemonic = <<"p","u","s","h">> THEN DecodePush(value)
        ELSE IF \E i \in 1..Len(Mnemonics) : Mnemonics[i][1] = mnemonic
        THEN Decoded(Op(Mnemonics[CHOOSE i \in 1..Len(Mnemonics) :
                                      Mnemonics[i][1] = mnemonic][2]))
        ELSE IF mnemonic = <<"j","u","m","p">>
        THEN IF value = <<>> THEN ParseError("MissingOperand")
             ELSE Decoded(Jump(value))
        ELSE IF mnemonic = <<"i","f","j","m","p">>
        THEN IF value = <<>> THEN ParseError("MissingOperand")
             ELSE Decoded(IfJmp(value))
        ELSE ParseError("UnknownInstruction")

\* line.starts_with(&['/', '#']) || line.is_empty()
IsSkipped(text) ==
    IF text = <<>> THEN TRUE ELSE text[1] \in {"/", "#"}

\* line.starts_with("::") && line.ends_with(':')
IsSectionHeader(text) ==
    StartsWith(text, <<":", ":">>) /\ EndsWith(text, <<":">>)

\* Option<SectionName>
None ==
    [some |-> FALSE, name |-> <<>>]

Some(name) ==
    [some |-> TRUE, name |-> name]

\* current_section.take().unwrap_or_else(|| SectionName("main"))
NameOrMain(cur) ==
    IF cur.some THEN cur.name ELSE MainName

(***************************************************************************)
(* Formatting: Display ({}) as print! uses it, Debug ({:?}) as the debug   *)
(* lines use it.                                                           *)
(***************************************************************************)
\* The least k <= 6 with d dividing 10^k: the number of decimals of n/d.
\* (Every float the model reaches has a terminating decimal expansion.)
Decimals(d) ==
    IF \E k \in 0..6 : Pow10(k) % d = 0
    THEN CHOOSE k \in 0..6 :
             /\ Pow10(k) % d = 0
             /\ \A j \in 0..(k - 1) : Pow10(j) % d # 0
    ELSE 6

RECURSIVE PadZeros(_, _)
PadZeros(s, width) ==
    IF Len(s) >= width THEN s ELSE PadZeros(<<"0">> \o s, width)

\* Display for f64: no fraction is printed for a whole number.
FmtFloat(v) ==
    LET k    == Decimals(v.d)
        mag  == Abs(v.n)
        frac == ((mag % v.d) * Pow10(k)) \div v.d
    IN  (IF v.n < 0 THEN <<"-">> ELSE <<>>)
        \o FmtNat(mag \div v.d)
        \o (IF k = 0 THEN <<>> ELSE <<".">> \o PadZeros(FmtNat(frac), k))

\* Debug for f64: a whole number keeps ".0".
FmtFloatDebug(v) ==
    IF v.d = 1 THEN FmtFloat(v) \o <<".","0">> ELSE FmtFloat(v)

FmtBool(v) ==
    IF v.n = 1 THEN <<"t","r","u","e">> ELSE <<"f","a","l","s","e">>

\* The text print! writes for a value.
Display(v) ==
    CASE v.t = "Bool"   -> FmtBool(v)
      [] v.t = "Int"    -> FmtNat(v.n)
      [] v.t = "Float"  -> FmtFloat(v)
      [] v.t = "String" -> v.s

\* str's Debug escaping of the characters the model's strings can hold.
RECURSIVE EscapeDebug(_)
EscapeDebug(s) ==
    IF s = <<>> THEN <<>>
    ELSE (CASE s[1] = "\"" -> <<"\\", "\"">>
            [] s[1] = "\\" -> <<"\\", "\\">>
            [] s[1] = "\n" -> <<"\\", "n">>
            [] s[1] = "\r" -> <<"\\", "r">>
            [] OTHER       -> <<s[1]>>)
         \o EscapeDebug(Tail(s))

Quoted(s) ==
    <<"\"">> \o EscapeDebug(s) \o <<"\"">>

\* #[derive(Debug)] for DataType
DebugValue(v) ==
    CASE v.t = "Bool"   -> <<"B","o","o","l","(">> \o FmtBool(v) \o <<")">>
      [] v.t = "Int"    -> <<"I","n","t","(">> \o FmtNat(v.n) \o <<")">>
      [] v.t = "Float"  -> <<"F","l","o","a","t","(">> \o FmtFloatDebug(v) \o <<")">>
      [] v.t = "String" -> <<"S","t","r","i","n","g","(">> \o Quoted(v.s) \o <<")">>

\* Debug for Vec<DataType>
RECURSIVE DebugItems(_)
DebugItems(st) ==
    IF st = <<>> THEN <<>>
    ELSE IF Len(st) = 1 THEN DebugValue(st[1])
    ELSE DebugValue(st[1]) \o <<",", " ">> \o DebugItems(Tail(st))

DebugStack(st) ==
    <<"[">> \o DebugItems(st) \o <<"]">>

\* The variant names, spelled out.
VariantNames ==
    << <<"EQ", <<"E","Q">>>>, <<"NE", <<"N","E">>>>, <<"And", <<"A","n","d">>>>,
       <<"Or", <<"O","r">>>>, <<"Not", <<"N","o","t">>>>, <<"Add", <<"A","d","d">>>>,
       <<"Sub", <<"S","u","b">>>>, <<"Mul", <<"M","u","l">>>>, <<"Div", <<"D","i","v">>>>,
       <<"Mod", <<"M","o","d">>>>, <<"Dup", <<"D","u","p">>>>, <<"Swap", <<"S","w","a","p">>>>,
       <<"Over", <<"O","v","e","r">>>>, <<"Rot", <<"R","o","t">>>>, <<"Drop", <<"D","r","o","p">>>>,
       <<"Print", <<"P","r","i","n","t">>>>, <<"Exit", <<"E","x","i","t">>>> >>

\* #[derive(Debug)] for Instructions
DebugInstruction(i) ==
    CASE i.op = "Push"  -> <<"P","u","s","h","(">> \o DebugValue(i.val) \o <<")">>
      [] i.op = "Jump"  -> <<"J","u","m","p","(">> \o Quoted(i.label) \o <<")">>
      [] i.op = "IfJmp" -> <<"I","f","J","m","p","(">> \o Quoted(i.label) \o <<")">>
      [] OTHER          ->
           VariantNames[CHOOSE k \in 1..Len(VariantNames) :
                            VariantNames[k][1] = i.op][2]

\* One write to standard output: by the debug println!s or by print!.
Write(isDebug, text) ==
    [debug |-> isDebug, text |-> text]

\* The two lines debug mode writes before an instruction is executed.
DebugLines(dbg, st, instruction) ==
    IF dbg
    THEN << Write(TRUE, <<"S","t","a","c","k",":"," ">> \o DebugStack(st) \o <<"\n">>),
            Write(TRUE, <<"R","u","n","n","i","n","g"," ","I","n","s","t","r","u","c","t","i","o","n",":"," ">>
                        \o DebugInstruction(instruction) \o <<"\n">>) >>
    ELSE <<>>

(***************************************************************************)
(* The instructions' effect on the value stack.  The stack is a Vec: the   *)
(* last element is the top.  A result is the panic's kind ("None" when the *)
(* arm completes) and the stack as the arm leaves it.                      *)
(***************************************************************************)
Result(kind, st) ==
    [fault |-> kind, stack |-> st]

\* The i-th value from the top (1 = the top).
FromTop(st, i) ==
    st[Len(st) - i + 1]

\* The stack after k calls of stack.pop(): pop on an empty Vec is None and
\* leaves it empty.
PopN(st, k) ==
    IF Len(st) >= k THEN SubSeq(st, 1, Len(st) - k) ELSE <<>>

\* usize arithmetic: with overflow checks (a debug build) an overflow
\* panics, without them (a release build) the result wraps.
Wrapped(r, checks) ==
    IF r < 0 \/ r >= UsizeModulus
    THEN IF checks
         THEN [fault |-> "ArithmeticOverflow", n |-> 0]
         ELSE [fault |-> "None", n |-> r % UsizeModulus]
    ELSE [fault |-> "None", n |-> r]

AddInt(a, b, checks) ==
    Wrapped(a + b, checks)

\* Fault injection: the operands of the subtraction exchanged.
SubIntSwapped(a, b, checks) ==
    Wrapped(b - a, checks)

SubInt(a, b, checks) ==
    Wrapped(a - b, checks)

MulInt(a, b, checks) ==
    Wrapped(a * b, checks)

\* Fault injection: the zero test on a, the value popped first.
DivIntTestingTop(a, b) ==
    IF a = 0
    THEN [fault |-> "DivisionByZero", n |-> 0]
    ELSE IF b = 0 THEN [fault |-> "None", n |-> 0]
    ELSE [fault |-> "None", n |-> a \div b]

\* if b == &0 { panic!("Cannot divide by zero") }; a / b
DivInt(a, b) ==
    IF b = 0
    THEN [fault |-> "DivisionByZero", n |-> 0]
    ELSE [fault |-> "None", n |-> a \div b]

\* Fault injection: a remainder that yields 0 for a zero divisor
\* (checked_rem(b).unwrap_or(0)).
ModIntUnchecked(a, b) ==
    IF b = 0
    THEN [fault |-> "None", n |-> 0]
    ELSE [fault |-> "None", n |-> a % b]

\* a % b: the remainder operator itself panics on a zero divisor, in every
\* build.
ModInt(a, b) ==
    IF b = 0
    THEN [fault |-> "DivisionByZero", n |-> 0]
    ELSE [fault |-> "None", n |-> a % b]

IntArith(op, a, b, checks) ==
    CASE op = "Add" -> AddInt(a, b, checks)
      [] op = "Sub" -> SubInt(a, b, checks)
      [] op = "Mul" -> MulInt(a, b, checks)
      [] op = "Div" -> DivInt(a, b)
      [] op = "Mod" -> ModInt(a, b)

\* A quotient of integers as a Float, the denominator kept positive.
Ratio(n, d) ==
    IF d < 0 THEN FloatV(0 - n, 0 - d) ELSE FloatV(n, d)

\* f64 arithmetic of the Add, Sub, Mul and Div arms.
FloatArith(op, a, b) ==
    CASE op = "Add" -> [fault |-> "None", val |-> Ratio(a.n * b.d + b.n * a.d, a.d * b.d)]
      [] op = "Sub" -> [fault |-> "None", val |-> Ratio(a.n * b.d - b.n * a.d, a.d * b.d)]
      [] op = "Mul" -> [fault |-> "None", val |-> Ratio(a.n * b.n, a.d * b.d)]
      [] op = "Div" -> IF b.n = 0
                       THEN [fault |-> "DivisionByZero", val |-> NoValue]
                       ELSE [fault |-> "None", val |-> Ratio(a.n * b.d, a.d * b.n)]

\* Instructions::Add, Sub, Mul, Div, Mod: a is popped first, b second.
Arith(op, st, checks) ==
    IF Len(st) < 2 THEN Result("StackUnderflow", PopN(st, 2))
    ELSE LET a    == FromTop(st, 1)
             b    == FromTop(st, 2)
             rest == PopN(st, 2)
         IN  IF a.t = "Int" /\ b.t = "Int"
             THEN LET r == IntArith(op, a.n, b.n, checks)
                  IN  IF r.fault = "None"
                      THEN Result("None", Append(rest, IntV(r.n)))
                      ELSE Result(r.fault, rest)
             ELSE IF a.t = "Float" /\ b.t = "Float" /\ op # "Mod"
             THEN LET r == FloatArith(op, a, b)
                  IN  IF r.fault = "None"
                      THEN Result("None", Append(rest, r.val))
                      ELSE Result(r.fault, rest)
             ELSE Result("TypeMismatch", rest)

\* Instructions::Dup
Dup(st) ==
    IF st = <<>> THEN Result("StackUnderflow", st)
    ELSE Result("None", Append(st, FromTop(st, 1)))

\* Instructions::Swap: pop a, pop b, push a, push b.
Swap(st) ==
    IF Len(st) < 2 THEN Result("StackUnderflow", PopN(st, 2))
    ELSE LET a == FromTop(st, 1)
             b == FromTop(st, 2)
         IN  Result("None", PopN(st, 2) \o <<a, b>>)

\* Instructions::Over: stack.get(stack.len() - 2).  With fewer than two
\* values the subtraction overflows: a panic with overflow checks, and
\* without them an index past the end, so get is None and the arm panics.
Over(st, checks) ==
    IF Len(st) < 2
    THEN Result(IF checks THEN "ArithmeticOverflow" ELSE "StackUnderflow", st)
    ELSE Result("None", Append(st, FromTop(st, 2)))

\* Fault injection: the three values pushed back as a, b, c.
RotReversing(st) ==
    IF Len(st) < 3 THEN [fault |-> "StackUnderflow", stack |-> <<>>]
    ELSE [fault |-> "None",
          stack |-> SubSeq(st, 1, Len(st) - 3)
                    \o <<st[Len(st)], st[Len(st) - 1], st[Len(st) - 2]>>]

\* Fault injection: the three values pushed back as a, c, b.
RotBackwards(st) ==
    IF Len(st) < 3 THEN [fault |-> "StackUnderflow", stack |-> <<>>]
    ELSE [fault |-> "None",
          stack |-> SubSeq(st, 1, Len(st) - 3)
                    \o <<st[Len(st)], st[Len(st) - 2], st[Len(st) - 1]>>]

\* Instructions::Rot: pop a, pop b, pop c, push b, push a, push c.
Rot(st) ==
    IF Len(st) < 3 THEN Result("StackUnderflow", PopN(st, 3))
    ELSE LET a == FromTop(st, 1)
             b == FromTop(st, 2)
             c == FromTop(st, 3)
         IN  Result("None", PopN(st, 3) \o <<b, a, c>>)

\* Instructions::EQ and NE: the derived PartialEq of DataType.
Compare(op, st) ==
    IF Len(st) < 2 THEN Result("StackUnderflow", PopN(st, 2))
    ELSE LET a == FromTop(st, 1)
             b == FromTop(st, 2)
         IN  Result("None",
                    Append(PopN(st, 2), BoolV(IF op = "EQ" THEN a = b ELSE a # b)))

\* Instructions::And and Or
Logic(op, st) ==
    IF Len(st) < 2 THEN Result("StackUnderflow", PopN(st, 2))
    ELSE LET a == FromTop(st, 1)
             b == FromTop(st, 2)
         IN  IF a.t = "Bool" /\ b.t = "Bool"
             THEN Result("None",
                         Append(PopN(st, 2),
                                BoolV(IF op = "And"
                                      THEN a.n = 1 /\ b.n = 1
                                      ELSE a.n = 1 \/ b.n = 1)))
             ELSE Result("TypeMismatch", PopN(st, 2))

\* Instructions::Not
Not(st) ==
    IF st = <<>> THEN Result("StackUnderflow", st)
    ELSE LET a == FromTop(st, 1)
         IN  IF a.t = "Bool"
             THEN Result("None", Append(PopN(st, 1), BoolV(a.n = 0)))
             ELSE Result("TypeMismatch", PopN(st, 1))

\* Fault injection: stack.pop().unwrap(), a drop that needs a value.
DropUnwrapping(st) ==
    IF st = <<>> THEN Result("StackUnderflow", st)
    ELSE Result("None", PopN(st, 1))

\* Instructions::Drop: stack.pop(), its result ignored.
Drop(st) ==
    Result("None", PopN(st, 1))

\* Fault injection: an integer takes the branch when it is not zero.
ShouldJumpOnNonZero(a) ==
    CASE a.t = "Bool" -> [fault |-> "None", jump |-> a.n = 1]
      [] a.t = "Int"  -> [fault |-> "None", jump |-> a.n # 0]
      [] OTHER        -> [fault |-> "TypeMismatch", jump |-> FALSE]

\* The should_jump of Instructions::IfJmp, for a non-empty stack: the top
\* is inspected, not popped.
ShouldJump(a) ==
    CASE a.t = "Bool" -> [fault |-> "None", jump |-> a.n = 1]
      [] a.t = "Int"  -> [fault |-> "None", jump |-> a.n = 0]
      [] OTHER        -> [fault |-> "TypeMismatch", jump |-> FALSE]

\* Fault injection: the lookup keeps the last section of that name.
FindLastSection(prog, label) ==
    IF \E k \in 1..Len(prog) : prog[k].name = label
    THEN CHOOSE k \in 1..Len(prog) :
            /\ prog[k].name = label
            /\ \A j \in (k + 1)..Len(prog) : prog[j].name # label
    ELSE 0

\* The index of the first section of prog named label, 0 when there is none
\* (the for loop with its break).
FindSection(prog, label) ==
    IF \E k \in 1..Len(prog) : prog[k].name = label
    THEN CHOOSE k \in 1..Len(prog) :
             /\ prog[k].name = label
             /\ \A j \in 1..(k - 1) : prog[j].name # label
    ELSE 0

\* Fault injection: splice(ic..ic, ..), an insertion that keeps the jump.
SpliceKeepingJump(work, cursor, instrs) ==
    SubSeq(work, 1, cursor) \o instrs \o SubSeq(work, cursor + 1, Len(work))

\* Fault injection: the list is cut off after the spliced section.
SpliceDroppingRest(work, cursor, instrs) ==
    SubSeq(work, 1, cursor) \o instrs

\* Fault injection: a reset of the list to the section, the cursor kept.
SpliceAsReset(work, cursor, instrs) ==
    instrs

\* Fault injection: splice(..ic + 1, ..), which also replaces what lies
\* below the cursor.
SpliceFromStart(work, cursor, instrs) ==
    instrs \o SubSeq(work, cursor + 2, Len(work))

\* Fault injection: splice(ic + 1..ic + 1, ..), the section inserted behind
\* the jump, which stays at the cursor.
SpliceBehindJump(work, cursor, instrs) ==
    SubSeq(work, 1, cursor + 1) \o instrs
       \o SubSeq(work, cursor + 2, Len(work))

\* program_instructions.splice(ic..ic+1, instructions.to_vec()); cursor is
\* the 0-based ic.
Splice(work, cursor, instrs) ==
    SubSeq(work, 1, cursor) \o instrs \o SubSeq(work, cursor + 2, Len(work))

(***************************************************************************)
(* The source files of the model: the lines contents.lines() yields.       *)
(***************************************************************************)
SeqsUpTo(S, n) ==
    UNION {[1..k -> S] : k \in 0..n}

\* Stack programs: up to MaxPush pushes, over an optional deeper value,
\* then one operand-free instruction.
StackLiterals ==
    {<<"p","u","s","h"," ","0">>, <<"p","u","s","h"," ","2">>, <<"p","u","s","h"," ","5">>,
     <<"p","u","s","h"," ","t","r","u","e">>, <<"p","u","s","h"," ","1",".","5">>}

DeeperValues ==
    {<<>>, <<<<"p","u","s","h"," ","\"","a","\"">>>>}

OperationLines ==
    {<<"e","q">>, <<"n","e">>, <<"a","n","d">>, <<"o","r">>, <<"n","o","t">>, <<"a","d","d">>,
     <<"s","u","b">>, <<"m","u","l">>, <<"d","i","v">>, <<"m","o","d">>, <<"d","u","p">>, <<"s","w","a","p">>,
     <<"o","v","e","r">>, <<"r","o","t">>, <<"d","r","o","p">>, <<"p","r","i","n","t">>, <<"e","x","i","t">>}

StackSources ==
    {deep \o tops \o <<op>> :
        deep \in DeeperValues,
        tops \in SeqsUpTo(StackLiterals, MaxPush),
        op \in OperationLines}

\* Two operands of every kind, then one instruction.
OperandLiterals ==
    {<<"p","u","s","h"," ","0">>, <<"p","u","s","h"," ","2">>, <<"p","u","s","h"," ","5">>, <<"p","u","s","h"," ","t","r","u","e">>,
     <<"p","u","s","h"," ","f","a","l","s","e">>, <<"p","u","s","h"," ","1",".","5">>, <<"p","u","s","h"," ","0",".","0">>,
     <<"p","u","s","h"," ","\"","a","\"">>, <<"p","u","s","h"," ","\"","b","\\","n","\"">>}

OperandSources ==
    {<<x, y, op>> : x \in OperandLiterals, y \in OperandLiterals,
                    op \in OperationLines}

\* Control flow: an unnamed leading section that ends in a jump or ifjmp
\* and what follows it, a section a, and possibly a second section a or an
\* explicit main.
BeforeJump ==
    {<<>>, <<<<"p","u","s","h"," ","0">>>>, <<<<"p","u","s","h"," ","5">>>>, <<<<"p","u","s","h"," ","t","r","u","e">>>>,
     <<<<"p","u","s","h"," ","f","a","l","s","e">>>>, <<<<"p","u","s","h"," ","1",".","5">>>>, <<<<"p","u","s","h"," ","\"","a","\"">>>>}

JumpLines ==
    {<<"j","u","m","p"," ","a">>, <<"i","f","j","m","p"," ","a">>, <<"j","u","m","p"," ","b">>, <<"i","f","j","m","p"," ","b">>,
     <<"j","u","m","p"," ","m","a","i","n">>, <<"i","f","j","m","p"," ","m","a","i","n">>}

AfterJump ==
    {<<>>, <<<<"p","r","i","n","t">>>>, <<<<"p","u","s","h"," ","2">>, <<"p","r","i","n","t">>>>}

SectionBodies ==
    {<<<<"p","r","i","n","t">>>>, <<<<"p","u","s","h"," ","2">>, <<"p","r","i","n","t">>>>, <<<<"e","x","i","t">>>>,
     <<<<"d","r","o","p">>, <<"j","u","m","p"," ","a">>>>, <<<<"p","u","s","h"," ","2">>, <<"j","u","m","p"," ","m","a","i","n">>>>}

LaterSections ==
    {<<>>, <<<<":",":","a",":">>, <<"p","u","s","h"," ","5">>>>, <<<<":",":","m","a","i","n",":">>, <<"e","x","i","t">>>>}

ControlSources ==
    {before \o <<j>> \o after \o <<<<":",":","a",":">>>> \o body \o later :
        before \in BeforeJump, j \in JumpLines, after \in AfterJump,
        body \in SectionBodies, later \in LaterSections}

\* The self-splicing loop.
LoopSource ==
    <<<<"j","u","m","p"," ","l","o","o","p">>, <<":",":","l","o","o","p",":">>, <<"p","u","s","h"," ","1">>, <<"p","r","i","n","t">>,
      <<"j","u","m","p"," ","l","o","o","p">>>>

\* Loader programs: any lines, up to MaxLines of them.
LoaderLines ==
    {<<>>, <<"#"," ","c">>, <<":",":","a",":">>, <<":",":","m","a","i","n",":">>, <<"P","U","S","H"," ","5">>,
     <<"P","r","i","n","t">>, <<"p","u","s","h"," ","x">>, <<"j","u","m","p">>, <<"n","o","p">>}

LoaderSources ==
    SeqsUpTo(LoaderLines, MaxLines)

Sources ==
    StackSources \cup OperandSources \cup ControlSources
        \cup LoaderSources \cup {LoopSource}

(***************************************************************************)
(* The state of interpret.                                                 *)
(***************************************************************************)
VARIABLES
    lines,                \* contents.lines()
    ln,                   \* the number of lines the for loop has consumed
    program,              \* Vec<Program>: the sections, in source order
    current_section,      \* Option<SectionName>
    instructions,         \* the instructions of the section being read
    stack,                \* Vec<DataType>
    program_instructions, \* the working instruction list
    ic,                   \* the cursor into program_instructions, from 0
    debug,                \* the --debug flag
    overflow_checks,      \* whether the build panics on integer overflow
    out,                  \* the writes to standard output, in order
    pc,                   \* "parse", "start", "run", "exited", "panicked"
    fault,                \* the kind of the panic, "None" while there is none
    reference             \* history: the states of an earlier invocation

vars ==
    <<lines, ln, program, current_section, instructions, stack,
      program_instructions, ic, debug, overflow_checks, out, pc, fault,
      reference>>

Init ==
    /\ lines \in Sources
    /\ ln = 0
    /\ program = <<>>
    /\ current_section = None
    /\ instructions = <<>>
    /\ stack = <<>>
    /\ program_instructions = <<>>
    /\ ic = 0
    /\ debug \in BOOLEAN
    /\ overflow_checks \in BOOLEAN
    /\ out = <<>>
    /\ pc = "parse"
    /\ fault = "None"
    /\ reference = <<>>

(***************************************************************************)
(* The loader: the for loop over the lines and the final flush.            *)
(***************************************************************************)
\* The line the for loop hands to its body.
line ==
    lines[ln + 1]

Parsing ==
    pc = "parse" /\ ln < Len(lines)

\* Fault injection: a flush that does not test instructions.is_empty().
FlushedAlways(prog, cur, instrs) ==
    Append(prog, Section(NameOrMain(cur), instrs))

\* if !instructions.is_empty() { program.push(Section(name or main, ..)) }
Flushed(prog, cur, instrs) ==
    IF instrs # <<>>
    THEN Append(prog, Section(NameOrMain(cur), instrs))
    ELSE prog

\* A comment or an empty line: continue.
SkipLine ==
    /\ Parsing
    /\ IsSkipped(line)
    /\ ln' = ln + 1
    /\ UNCHANGED <<reference, lines, program, current_section, instructions, stack,
                   program_instructions, ic, debug, overflow_checks, out,
                   pc, fault>>

\* Fault injection: the name of the header is recorded before the flush,
\* so the instructions read so far are stored under the new name.
SectionHeaderNamingBefore ==
    /\ Parsing
    /\ ~IsSkipped(line)
    /\ IsSectionHeader(line)
    /\ program' = Flushed(program, Some(TrimMatches(line, ":")), instructions)
    /\ instructions' = <<>>
    /\ current_section' = Some(TrimMatches(line, ":"))
    /\ ln' = ln + 1
    /\ UNCHANGED <<reference, lines, stack, program_instructions, ic, debug,
                   overflow_checks, out, pc, fault>>

\* A section header: flush what was read, name the section that begins.
\* current_section.take() happens only inside the flush.
SectionHeader ==
    /\ Parsing
    /\ ~IsSkipped(line)
    /\ IsSectionHeader(line)
    /\ program' = Flushed(program, current_section, instructions)
    /\ instructions' = <<>>
    /\ current_section' = Some(TrimMatches(line, ":"))
    /\ ln' = ln + 1
    /\ UNCHANGED <<reference, lines, stack, program_instructions, ic, debug,
                   overflow_checks, out, pc, fault>>

\* An instruction line: decode and append it, or panic.
InstructionLine ==
    /\ Parsing
    /\ ~IsSkipped(line)
    /\ ~IsSectionHeader(line)
    /\ LET d == DecodeLine(line)
       IN  IF d.err = "None"
           THEN /\ instructions' = Append(instructions, d.instr)
                /\ ln' = ln + 1
                /\ UNCHANGED <<pc, fault>>
           ELSE /\ pc' = "panicked"
                /\ fault' = d.err
                /\ UNCHANGED <<instructions, ln>>
    /\ UNCHANGED <<reference, lines, program, current_section, stack,
                   program_instructions, ic, debug, overflow_checks, out>>

\* After the last line: the remaining instructions become a section.
FinalFlush ==
    /\ pc = "parse"
    /\ ln = Len(lines)
    /\ program' = Flushed(program, current_section, instructions)
    /\ instructions' = <<>>
    /\ current_section' = IF instructions # <<>> THEN None ELSE current_section
    /\ pc' = "start"
    /\ UNCHANGED <<reference, lines, ln, stack, program_instructions, ic, debug,
                   overflow_checks, out, fault>>

(***************************************************************************)
(* The executor.                                                           *)
(***************************************************************************)
\* The instructions of the first section named main, empty when there is
\* none.
MainInstructions(prog) ==
    IF FindSection(prog, MainName) = 0
    THEN <<>>
    ELSE prog[FindSection(prog, MainName)].instructions

\* The empty stack, the cursor at 0, the copy of main; the panic when the
\* copy is empty.
FindMain ==
    /\ pc = "start"
    /\ stack' = <<>>
    /\ ic' = 0
    /\ program_instructions' = MainInstructions(program)
    /\ IF MainInstructions(program) = <<>>
       THEN pc' = "panicked" /\ fault' = "NoMainSection"
       ELSE pc' = "run" /\ fault' = fault
    /\ UNCHANGED <<reference, lines, ln, program, current_section, instructions, debug,
                   overflow_checks, out>>

\* while ic < program_instructions.len()
Fetching ==
    pc = "run" /\ ic < Len(program_instructions)

\* let instruction = program_instructions[ic].clone();
instruction ==
    program_instructions[ic + 1]

Executing(name) ==
    Fetching /\ instruction.op = name

\* Fault injection: the debug line takes the top of the stack off to show
\* it.
CompletesDebugPopping(res, printed) ==
    /\ stack' = IF debug THEN PopN(res.stack, 1) ELSE res.stack
    /\ out' = out \o DebugLines(debug, stack, instruction) \o printed
    /\ IF res.fault = "None"
       THEN ic' = ic + 1 /\ pc' = pc /\ fault' = fault
       ELSE ic' = ic /\ pc' = "panicked" /\ fault' = res.fault
    /\ UNCHANGED <<reference, lines, ln, program, current_section,
                   instructions, program_instructions, debug,
                   overflow_checks>>

\* The end of an arm that only touches the stack: the debug lines and what
\* the arm printed are written; the cursor advances unless the arm
\* panicked.
Completes(res, printed) ==
    /\ stack' = res.stack
    /\ out' = out \o DebugLines(debug, stack, instruction) \o printed
    /\ IF res.fault = "None"
       THEN ic' = ic + 1 /\ pc' = pc /\ fault' = fault
       ELSE ic' = ic /\ pc' = "panicked" /\ fault' = res.fault
    /\ UNCHANGED <<reference, lines, ln, program, current_section, instructions,
                   program_instructions, debug, overflow_checks>>

ExecPush ==
    /\ Executing("Push")
    /\ Completes(Result("None", Append(stack, instruction.val)), <<>>)

ExecArith ==
    /\ \E op \in {"Add", "Sub", "Mul", "Div", "Mod"} : Executing(op)
    /\ Completes(Arith(instruction.op, stack, overflow_checks), <<>>)

ExecDup ==
    /\ Executing("Dup")
    /\ Completes(Dup(stack), <<>>)

ExecSwap ==
    /\ Executing("Swap")
    /\ Completes(Swap(stack), <<>>)

ExecOver ==
    /\ Executing("Over")
    /\ Completes(Over(stack, overflow_checks), <<>>)

ExecRot ==
    /\ Executing("Rot")
    /\ Completes(Rot(stack), <<>>)

ExecCompare ==
    /\ \E op \in {"EQ", "NE"} : Executing(op)
    /\ Completes(Compare(instruction.op, stack), <<>>)

ExecLogic ==
    /\ \E op \in {"And", "Or"} : Executing(op)
    /\ Completes(Logic(instruction.op, stack), <<>>)

ExecNot ==
    /\ Executing("Not")
    /\ Completes(Not(stack), <<>>)

ExecDrop ==
    /\ Executing("Drop")
    /\ Completes(Drop(stack), <<>>)

\* Instructions::Print: the top is written, not popped.
ExecPrint ==
    /\ Executing("Print")
    /\ IF stack = <<>>
       THEN Completes(Result("StackUnderflow", stack), <<>>)
       ELSE Completes(Result("None", stack),
                      <<Write(FALSE, Display(FromTop(stack, 1)))>>)

\* Fault injection: exit falls through to the increment of the cursor
\* instead of leaving the loop.
ExecExitFallingThrough ==
    /\ Executing("Exit")
    /\ Completes(Result("None", stack), <<>>)

\* Instructions::Exit: break.
ExecExit ==
    /\ Executing("Exit")
    /\ out' = out \o DebugLines(debug, stack, instruction)
    /\ pc' = "exited"
    /\ UNCHANGED <<reference, lines, ln, program, current_section, instructions, stack,
                   program_instructions, ic, debug, overflow_checks, fault>>

\* Fault injection: a jump to main splices the working list instead of the
\* main section of the table.
JumpToWorkingMain(label) ==
    /\ out' = out \o DebugLines(debug, stack, instruction)
    /\ Len(out') <= MaxOut
    /\ IF FindSection(program, label) = 0
       THEN /\ pc' = "panicked"
            /\ fault' = "UnknownLabel"
            /\ UNCHANGED program_instructions
       ELSE /\ program_instructions' =
                   Splice(program_instructions, ic,
                          IF label = MainName
                          THEN program_instructions
                          ELSE program[FindSection(program, label)].instructions)
            /\ Len(program_instructions') <= MaxWork
            /\ UNCHANGED <<pc, fault>>
    /\ UNCHANGED <<reference, lines, ln, program, current_section, instructions, stack,
                   ic, debug, overflow_checks>>

\* The section lookup and splice shared by the Jump arm and the taken
\* IfJmp arm: the target replaces the instruction at the cursor and the
\* loop continues without advancing; no section of that name is a panic.
JumpTo(label) ==
    /\ out' = out \o DebugLines(debug, stack, instruction)
    /\ Len(out') <= MaxOut
    /\ IF FindSection(program, label) = 0
       THEN /\ pc' = "panicked"
            /\ fault' = "UnknownLabel"
            /\ UNCHANGED program_instructions
       ELSE /\ program_instructions' =
                   Splice(program_instructions, ic,
                          program[FindSection(program, label)].instructions)
            /\ Len(program_instructions') <= MaxWork
            /\ UNCHANGED <<pc, fault>>
    /\ UNCHANGED <<reference, lines, ln, program, current_section, instructions, stack,
                   ic, debug, overflow_checks>>

ExecJump ==
    /\ Executing("Jump")
    /\ JumpTo(instruction.label)

\* Fault injection: the label of an ifjmp is looked up before the top of
\* the stack is tested.
ExecIfJmpEagerLookup ==
    /\ Executing("IfJmp")
    /\ IF stack = <<>>
       THEN Completes(Result("StackUnderflow", stack), <<>>)
       ELSE IF ShouldJump(FromTop(stack, 1)).fault # "None"
       THEN Completes(Result(ShouldJump(FromTop(stack, 1)).fault, stack), <<>>)
       ELSE IF ShouldJump(FromTop(stack, 1)).jump
               \/ FindSection(program, instruction.label) = 0
       THEN JumpTo(instruction.label)
       ELSE Completes(Result("None", stack), <<>>)

ExecIfJmp ==
    /\ Executing("IfJmp")
    /\ IF stack = <<>>
       THEN Completes(Result("StackUnderflow", stack), <<>>)
       ELSE IF ShouldJump(FromTop(stack, 1)).fault # "None"
       THEN Completes(Result(ShouldJump(FromTop(stack, 1)).fault, stack), <<>>)
       ELSE IF ShouldJump(FromTop(stack, 1)).jump
       THEN JumpTo(instruction.label)
       ELSE Completes(Result("None", stack), <<>>)

\* The loop condition fails: interpret returns.
LoopEnd ==
    /\ pc = "run"
    /\ ic >= Len(program_instructions)
    /\ pc' = "exited"
    /\ UNCHANGED <<reference, lines, ln, program, current_section, instructions, stack,
                   program_instructions, ic, debug, overflow_checks, out,
                   fault>>

Next ==
    \/ SkipLine
    \/ SectionHeader
    \/ InstructionLine
    \/ FinalFlush
    \/ FindMain
    \/ ExecPush
    \/ ExecArith
    \/ ExecDup
    \/ ExecSwap
    \/ ExecOver
    \/ ExecRot
    \/ ExecCompare
    \/ ExecLogic
    \/ ExecNot
    \/ ExecDrop
    \/ ExecPrint
    \/ ExecExit
    \/ ExecJump
    \/ ExecIfJmp
    \/ LoopEnd

Spec ==
    Init /\ [][Next]_vars

\* The interpreter is a single thread that always takes its next step.
FairSpec ==
    Spec /\ WF_vars(Next)

TypeOK ==
    /\ pc \in {"parse", "start", "run", "exited", "panicked"}
    /\ ln \in 0..Len(lines)
    /\ ic \in 0..Len(program_instructions)
    /\ (fault # "None") = (pc = "panicked")

(***************************************************************************)
(* Properties.                                                             *)
(***************************************************************************)
\* Section k is the first section of the program named label.
IsFirstNamed(k, label) ==
    /\ program[k].name = label
    /\ \A j \in 1..(k - 1) : program[j].name # label

\* The writes of print!, without the debug lines.
Printed ==
    SelectSeq(out, LAMBDA w : ~w.debug)

\* C1: a jump to label L executed at cursor i on the working list W, with S
\* the instructions of the first section named L, leaves the working list
\* W[0..i) ++ S ++ W[i+1..], the cursor at i and the stack unchanged, and
\* the instruction at the cursor is then the first instruction of S.
JumpSplices ==
    [][\A k \in 1..Len(program) :
          (Executing("Jump") /\ IsFirstNamed(k, instruction.label)) =>
             LET S == program[k].instructions
                 W == program_instructions
             IN  /\ pc' = "run"
                 /\ ic' = ic
                 /\ stack' = stack
                 /\ Len(program_instructions') = Len(W) - 1 + Len(S)
                 /\ \A j \in 1..ic : program_instructions'[j] = W[j]
                 /\ \A j \in 1..Len(S) : program_instructions'[ic + j] = S[j]
                 /\ \A j \in (ic + 2)..Len(W) :
                        program_instructions'[j + Len(S) - 1] = W[j]
                 /\ ic' < Len(program_instructions')
                 /\ program_instructions'[ic' + 1] = S[1]
      ]_vars

\* A jump in the middle of main has just been executed: the cursor is on
\* the first instruction of the section, main's later instructions follow.
JumpSplicedWitness ==
    /\ pc = "run"
    /\ ic > 0
    /\ \E k \in 1..Len(program) :
          LET main == MainInstructions(program)
              S    == program[k].instructions
          IN  /\ Len(main) > ic + 1
              /\ main[ic + 1].op = "Jump"
              /\ IsFirstNamed(k, main[ic + 1].label)
              /\ program_instructions =
                    SubSeq(main, 1, ic) \o S \o SubSeq(main, ic + 2, Len(main))

\* The instructions not yet executed: from the cursor to the end.
Remaining ==
    SubSeq(program_instructions, ic + 1, Len(program_instructions))

RemainingNext ==
    SubSeq(program_instructions', ic' + 1, Len(program_instructions'))

\* C2: the instructions that follow a jump or a taken ifjmp are not
\* discarded.  Every step of a run that keeps running either removes the
\* first of the instructions not yet executed, or (a jump, a taken ifjmp)
\* replaces it by a section's instructions; what followed it stays, in
\* order, so it is executed once the spliced section has run to its end.
RestFollowsSplice ==
    [][(pc = "run" /\ pc' = "run") =>
          \/ RemainingNext = Tail(Remaining)
          \/ /\ instruction.op \in {"Jump", "IfJmp"}
             /\ \E k \in 1..Len(program) :
                   /\ IsFirstNamed(k, instruction.label)
                   /\ RemainingNext = program[k].instructions \o Tail(Remaining)
      ]_vars

\* A section spliced in by a jump has run to its end and the cursor is on
\* the instruction that followed the jump in main.
RestFollowsWitness ==
    /\ pc = "run"
    /\ \E k \in 1..Len(program), i \in 1..Len(MainInstructions(program)) :
          LET main == MainInstructions(program)
              S    == program[k].instructions
          IN  /\ i < Len(main)
              /\ main[i].op \in {"Jump", "IfJmp"}
              /\ IsFirstNamed(k, main[i].label)
              /\ program_instructions =
                    SubSeq(main, 1, i - 1) \o S \o SubSeq(main, i + 1, Len(main))
              /\ ic = i - 1 + Len(S)
              /\ instruction = main[i + 1]

\* C3: main `jump loop` with section loop `push 1`, `print`, `jump loop`
\* never exits and never faults, and prints 1 again and again: while it
\* runs a next step is possible (until the working list is at its bound),
\* every step advances the cursor or lengthens the working list, and every
\* second instruction passed has printed a 1.
LoopRunsForever ==
    /\ [](lines = LoopSource =>
             /\ pc \notin {"exited", "panicked"}
             /\ \A i \in 1..Len(Printed) : Printed[i].text = <<"1">>
             /\ pc = "run" =>
                   /\ Len(Printed) = ic \div 2
                   /\ \/ ENABLED Next
                      \/ Len(program_instructions) + 2 > MaxWork)
    /\ [][(lines = LoopSource /\ pc = "run") =>
             \/ ic' = ic + 1
             \/ Len(program_instructions') > Len(program_instructions)
         ]_vars

LoopWitness ==
    /\ lines = LoopSource
    /\ pc = "run"
    /\ Len(Printed) >= 2
    /\ Len(program_instructions) > 3

\* The program has a section named main.
HasMain ==
    \E k \in 1..Len(program) : program[k].name = MainName

\* C4: the run faults with NoMainSection, before any instruction executes
\* and before anything is printed, exactly when the loaded program has no
\* section named main; when there is one, execution starts at cursor 0 of a
\* copy of the first such section with an empty stack.
NoMainExactly ==
    [][pc = "start" =>
          IF HasMain
          THEN /\ pc' = "run"
               /\ ic' = 0
               /\ stack' = <<>>
               /\ out' = <<>>
               /\ \E k \in 1..Len(program) :
                     /\ IsFirstNamed(k, MainName)
                     /\ program_instructions' = program[k].instructions
                     /\ program_instructions' # <<>>
          ELSE /\ pc' = "panicked"
               /\ fault' = "NoMainSection"
               /\ out' = <<>>
               /\ stack' = <<>>
       /\ (pc # "start" => fault' # "NoMainSection")
      ]_vars

\* A source with a section but no main has faulted.
NoMainWitness ==
    /\ pc = "panicked"
    /\ fault = "NoMainSection"
    /\ program # <<>>

\* The stack holds at least two values and the top two are integers.
TwoInts ==
    /\ Len(stack) >= 2
    /\ stack[Len(stack)].t = "Int"
    /\ stack[Len(stack) - 1].t = "Int"

\* The stack below its k topmost values.
Below(k) ==
    SubSeq(stack, 1, Len(stack) - k)

\* The instruction before the cursor, k positions back (1 = the last one
\* executed).
Passed(k) ==
    program_instructions[ic + 1 - k]

\* C5 as stated: div with integer 0 on top of the stack and 5 beneath it
\* (push 5, push 0, div) ends the run Faulted with DivisionByZero and
\* pushes no result.
DivFiveZeroFaults ==
    [][(/\ Executing("Div")
        /\ TwoInts
        /\ stack[Len(stack)].n = 0
        /\ stack[Len(stack) - 1].n = 5) =>
          /\ pc' = "panicked"
          /\ fault' = "DivisionByZero"
          /\ stack' = Below(2)
      ]_vars

\* C5, amended: push 5, push 0, div (0 on top, 5 beneath) does not fault:
\* div divides the top by the value beneath it, pushes 0 / 5 = 0 in place
\* of the operands and the run goes on.  It is push 0, push 5, div (5 on
\* top, 0 beneath) that ends the run Faulted with DivisionByZero and pushes
\* no result.
DivZeroDividendContinues ==
    [][/\ (/\ Executing("Div")
           /\ TwoInts
           /\ stack[Len(stack)].n = 0
           /\ stack[Len(stack) - 1].n = 5) =>
             /\ pc' = "run"
             /\ fault' = "None"
             /\ ic' = ic + 1
             /\ stack' = Append(Below(2), IntV(0))
       /\ (/\ Executing("Div")
           /\ TwoInts
           /\ stack[Len(stack)].n = 5
           /\ stack[Len(stack) - 1].n = 0) =>
             /\ pc' = "panicked"
             /\ fault' = "DivisionByZero"
             /\ stack' = Below(2)
      ]_vars

\* push 5, push 0, div has been executed and the run goes on with 0 pushed.
DivZeroDividendWitness ==
    /\ pc = "run"
    /\ ic >= 3
    /\ Passed(1).op = "Div"
    /\ Passed(2) = Push(IntV(0))
    /\ Passed(3) = Push(IntV(5))
    /\ Len(stack) = ic - 2
    /\ stack[Len(stack)] = IntV(0)

\* C6 as stated: with a, b, c (bottom to top) the top three values above a
\* rest x, rot yields x, c, b, a.
RotReversesTopThree ==
    [][(Executing("Rot") /\ Len(stack) >= 3) =>
          LET a == stack[Len(stack) - 2]
              b == stack[Len(stack) - 1]
              c == stack[Len(stack)]
          IN  stack' = Below(3) \o <<c, b, a>>
      ]_vars

\* C6, amended: with a, b, c (bottom to top) the top three values above a
\* rest x, rot yields x, b, c, a: the third value from the top comes to the
\* top; the values below the top three are unchanged.
RotCyclesTopThree ==
    [][(Executing("Rot") /\ Len(stack) >= 3) =>
          LET a == stack[Len(stack) - 2]
              b == stack[Len(stack) - 1]
              c == stack[Len(stack)]
          IN  /\ stack' = Below(3) \o <<b, c, a>>
              /\ pc' = "run"
              /\ ic' = ic + 1
      ]_vars

\* rot has been executed on x, a, b, c with a, b, c different values.
RotCyclesWitness ==
    /\ pc = "run"
    /\ ic >= 5
    /\ Passed(1).op = "Rot"
    /\ \A k \in 2..5 : Passed(k).op = "Push"
    /\ Passed(2).val # Passed(3).val
    /\ Passed(3).val # Passed(4).val
    /\ Passed(2).val # Passed(4).val
    /\ stack = <<Passed(5).val, Passed(3).val, Passed(2).val, Passed(4).val>>

\* C7: rot pops a, b, c (a the former top) and pushes b, a, c: afterwards c
\* is on top, a second and b third, on the same values below; with fewer
\* than three values the run faults with StackUnderflow.
RotPopPushOrder ==
    [][Executing("Rot") =>
          IF Len(stack) >= 3
          THEN LET a == stack[Len(stack)]
                   b == stack[Len(stack) - 1]
                   c == stack[Len(stack) - 2]
               IN  /\ pc' = "run"
                   /\ Len(stack') = Len(stack)
                   /\ stack'[Len(stack')] = c
                   /\ stack'[Len(stack') - 1] = a
                   /\ stack'[Len(stack') - 2] = b
                   /\ SubSeq(stack', 1, Len(stack') - 3) = Below(3)
          ELSE /\ pc' = "panicked"
               /\ fault' = "StackUnderflow"
      ]_vars

\* rot has been executed on exactly three different values.
RotPopPushWitness ==
    /\ pc = "run"
    /\ ic = 4
    /\ Passed(1).op = "Rot"
    /\ \A k \in 2..4 : Passed(k).op = "Push"
    /\ Cardinality({Passed(2).val, Passed(3).val, Passed(4).val}) = 3
    /\ Len(stack) = 3
    /\ stack[3] = Passed(4).val

\* a op b in usize arithmetic.
UsizeResult(op, a, b) ==
    CASE op = "Add" -> (a + b) % UsizeModulus
      [] op = "Sub" -> (a - b + UsizeModulus) % UsizeModulus
      [] op = "Mul" -> (a * b) % UsizeModulus
      [] op = "Div" -> a \div b
      [] op = "Mod" -> a % b

\* C8: add, sub, mul, div and mod on two integers replace them by the one
\* result a op b, a the value that was on top and b the value beneath it;
\* after push 2, push 5, sub the stack holds the single integer 3.
ArithOperandOrder ==
    /\ [][\A op \in {"Add", "Sub", "Mul", "Div", "Mod"} :
             (Executing(op) /\ TwoInts /\ pc' = "run") =>
                LET a == stack[Len(stack)].n
                    b == stack[Len(stack) - 1].n
                IN  /\ stack' = Append(Below(2), IntV(UsizeResult(op, a, b)))
                    /\ ic' = ic + 1
         ]_vars
    /\ []((/\ pc = "exited"
           /\ program_instructions = <<Push(IntV(2)), Push(IntV(5)), Op("Sub")>>)
            => stack = <<IntV(3)>>)

\* push 2, push 5, sub has run to its end.
ArithOrderWitness ==
    /\ pc = "exited"
    /\ program_instructions = <<Push(IntV(2)), Push(IntV(5)), Op("Sub")>>
    /\ stack = <<IntV(3)>>

\* C9: div or mod on two integers with a zero divisor (b, the second value
\* popped) ends the run Faulted with DivisionByZero and no result is
\* pushed, for mod as for div.
ZeroDivisorFaults ==
    [][\A op \in {"Div", "Mod"} :
          (Executing(op) /\ TwoInts /\ stack[Len(stack) - 1].n = 0) =>
             /\ pc' = "panicked"
             /\ fault' = "DivisionByZero"
             /\ stack' = Below(2)
      ]_vars

\* mod has faulted on a non-zero integer over a zero.
ZeroDivisorWitness ==
    /\ pc = "panicked"
    /\ fault = "DivisionByZero"
    /\ ic >= 2
    /\ instruction.op = "Mod"
    /\ Passed(1) = Push(IntV(5))
    /\ Passed(2) = Push(IntV(0))
    /\ Len(stack) = ic - 2

\* C10: ifjmp never changes the stack.  The branch is taken exactly when
\* the top is boolean true or integer 0, and then ifjmp splices like jump,
\* the cursor unchanged (an unknown label faults, as for jump); on boolean
\* false or a non-zero integer the working list is unchanged and the
\* cursor advances by one; a float or string on top faults with
\* TypeMismatch, an empty stack with StackUnderflow.
IfJmpBranches ==
    [][Executing("IfJmp") =>
          /\ stack' = stack
          /\ IF stack = <<>>
             THEN pc' = "panicked" /\ fault' = "StackUnderflow"
             ELSE LET top == stack[Len(stack)]
                      W   == program_instructions
                  IN  IF top \in {BoolV(TRUE), IntV(0)}
                      THEN \/ \E k \in 1..Len(program) :
                                 LET S == program[k].instructions
                                 IN  /\ IsFirstNamed(k, instruction.label)
                                     /\ pc' = "run"
                                     /\ ic' = ic
                                     /\ program_instructions' =
                                           SubSeq(W, 1, ic) \o S
                                              \o SubSeq(W, ic + 2, Len(W))
                           \/ /\ \A k \in 1..Len(program) :
                                    program[k].name # instruction.label
                              /\ pc' = "panicked"
                              /\ fault' = "UnknownLabel"
                      ELSE IF top.t \in {"Bool", "Int"}
                      THEN /\ pc' = "run"
                           /\ ic' = ic + 1
                           /\ program_instructions' = W
                      ELSE pc' = "panicked" /\ fault' = "TypeMismatch"
      ]_vars

\* An ifjmp of main has just been taken on an integer 0: the section is
\* spliced in at the cursor and the 0 is still on the stack.
IfJmpTakenWitness ==
    /\ pc = "run"
    /\ stack = <<IntV(0)>>
    /\ ic = 1
    /\ \E k \in 1..Len(program) :
          LET main == MainInstructions(program)
          IN  /\ Len(main) > 2
              /\ main[2].op = "IfJmp"
              /\ IsFirstNamed(k, main[2].label)
              /\ program_instructions =
                    SubSeq(main, 1, 1) \o program[k].instructions
                       \o SubSeq(main, 3, Len(main))

\* No section of the loaded program is named label.
NamesNoSection(label) ==
    \A k \in 1..Len(program) : program[k].name # label

\* C11: a jump or ifjmp whose label names no section is accepted by the
\* loader like any other; UnknownLabel is raised only by the step that
\* executes such a jump, or such an ifjmp on a top that takes the branch
\* (boolean true or integer 0).  A jump to a missing label always raises it
\* when executed; an ifjmp to a missing label whose branch is not taken
\* just advances the cursor.
UnknownLabelOnlyWhenTaken ==
    /\ [][(Parsing /\ ~IsSkipped(line) /\ ~IsSectionHeader(line)
              /\ ToLowercase(SplitOnce(line)[1]) \in
                    {<<"j", "u", "m", "p">>, <<"i", "f", "j", "m", "p">>}
              /\ SplitOnce(line)[2] # <<>>) =>
             /\ pc' = "parse"
             /\ fault' = "None"
             /\ Len(instructions') = Len(instructions) + 1
             /\ instructions'[Len(instructions')].op \in {"Jump", "IfJmp"}
             /\ instructions'[Len(instructions')].label = SplitOnce(line)[2]
       ]_vars
    /\ [][(fault = "None" /\ fault' = "UnknownLabel") =>
             /\ Fetching
             /\ instruction.op \in {"Jump", "IfJmp"}
             /\ NamesNoSection(instruction.label)
             /\ instruction.op = "IfJmp" =>
                   /\ stack # <<>>
                   /\ stack[Len(stack)] \in {BoolV(TRUE), IntV(0)}
       ]_vars
    /\ [][(Executing("Jump") /\ NamesNoSection(instruction.label)) =>
             pc' = "panicked" /\ fault' = "UnknownLabel"
       ]_vars
    /\ [][(/\ Executing("IfJmp")
           /\ NamesNoSection(instruction.label)
           /\ stack # <<>>
           /\ stack[Len(stack)].t \in {"Bool", "Int"}
           /\ stack[Len(stack)] \notin {BoolV(TRUE), IntV(0)}) =>
             /\ pc' = "run"
             /\ fault' = "None"
             /\ ic' = ic + 1
             /\ program_instructions' = program_instructions
       ]_vars

\* A run has passed an ifjmp to a missing label without taking it and has
\* ended normally.
UntakenUnknownLabelWitness ==
    /\ pc = "exited"
    /\ fault = "None"
    /\ ic = Len(program_instructions)
    /\ \E i \in 1..Len(program_instructions) :
          /\ program_instructions[i].op = "IfJmp"
          /\ NamesNoSection(program_instructions[i].label)

\* C12: once loading has finished no step changes the section table, and a
\* jump or taken ifjmp to a label splices the instructions the table holds
\* for the first section of that name, whatever the working list has
\* become; in particular a jump to main splices main as it was loaded, not
\* the working copy that earlier splices have altered.
SectionTableFrozen ==
    /\ [][pc # "parse" => program' = program]_vars
    /\ [][\A k \in 1..Len(program) :
             (/\ Fetching
              /\ instruction.op \in {"Jump", "IfJmp"}
              /\ IsFirstNamed(k, instruction.label)
              /\ program_instructions' # program_instructions
                    \/ instruction.op = "Jump") =>
                program_instructions' =
                   SubSeq(program_instructions, 1, ic)
                      \o program[k].instructions
                      \o SubSeq(program_instructions, ic + 2,
                                Len(program_instructions))
       ]_vars

\* main starts with a jump to main and that jump has been executed twice:
\* the second time the working list was no longer main, and what was
\* spliced in is main as loaded.
JumpToAlteredMainWitness ==
    /\ pc = "run"
    /\ ic = 0
    /\ LET main == MainInstructions(program)
       IN  /\ Len(main) >= 2
           /\ main[1].op = "Jump"
           /\ main[1].label = MainName
           /\ program_instructions =
                 main \o Tail(main) \o Tail(main)

\* Two sections of the loaded program carry the same name and differ.
Shadowed(k, j) ==
    /\ k < j
    /\ program[j].name = program[k].name
    /\ program[j].instructions # program[k].instructions

\* C13: when several sections share a name, the first in source order is
\* the one used: the run starts on the first section named main, and a
\* jump or taken ifjmp splices the first section of its label.  A later
\* section of the same name is never what the name resolves to.
FirstSectionWins ==
    /\ [][\A k \in 1..Len(program) :
             (pc = "start" /\ IsFirstNamed(k, MainName)) =>
                /\ program_instructions' = program[k].instructions
                /\ \A j \in (k + 1)..Len(program) :
                      Shadowed(k, j) =>
                         program_instructions' # program[j].instructions
       ]_vars
    /\ [][\A k \in 1..Len(program) :
             (/\ Fetching
              /\ instruction.op \in {"Jump", "IfJmp"}
              /\ IsFirstNamed(k, instruction.label)
              /\ program_instructions' # program_instructions
                    \/ instruction.op = "Jump") =>
                LET W == program_instructions
                    Into(S) == SubSeq(W, 1, ic) \o S
                                  \o SubSeq(W, ic + 2, Len(W))
                IN  /\ program_instructions' = Into(program[k].instructions)
                    /\ \A j \in (k + 1)..Len(program) :
                          Shadowed(k, j) =>
                             program_instructions' #
                                Into(program[j].instructions)
       ]_vars

\* Instructions before any header form the first main, an explicit main
\* section with other instructions follows, and the run has started on the
\* unnamed one.
ShadowedMainWitness ==
    /\ pc = "run"
    /\ ic = 0
    /\ \E j \in 2..Len(program) :
          /\ program[1].name = MainName
          /\ Shadowed(1, j)
          /\ program_instructions = program[1].instructions
          /\ ~IsSectionHeader(lines[1])

\* A line that is neither skipped nor a section header.
IsInstructionLine(text) ==
    ~IsSkipped(text) /\ ~IsSectionHeader(text)

\* The operand of a push is a quoted string, a number with a '.', true,
\* false or an unsigned integer.
ValidLiteral(value) ==
    IF StartsWith(value, <<"\"">>) /\ EndsWith(value, <<"\"">>) THEN TRUE
    ELSE IF Contains(value, ".") THEN ParseF64(value).ok
    ELSE IF value \in {<<"t","r","u","e">>, <<"f","a","l","s","e">>} THEN TRUE
    ELSE ParseUsize(value).ok

\* The instruction line cannot be decoded: push, jump or ifjmp without an
\* operand, a push whose operand is no literal, or an unknown mnemonic.
FailsToDecode(text) ==
    LET mnemonic == ToLowercase(SplitOnce(text)[1])
        value    == SplitOnce(text)[2]
        operand  == {<<"p","u","s","h">>, <<"j","u","m","p">>,
                     <<"i","f","j","m","p">>}
    IN  IF mnemonic \in operand /\ value = <<>> THEN TRUE
        ELSE IF mnemonic = <<"p","u","s","h">> THEN ~ValidLiteral(value)
        ELSE mnemonic \notin
                operand \cup {Mnemonics[i][1] : i \in 1..Len(Mnemonics)}

ParseErrors ==
    {"MissingOperand", "InvalidLiteral", "UnknownInstruction"}

BadLines ==
    {i \in 1..Len(lines) :
        IsInstructionLine(lines[i]) /\ FailsToDecode(lines[i])}

\* C15: a source with an instruction line that cannot be decoded, in
\* whatever section the line stands, never starts executing: the executor
\* is started only on a source without such a line, and the loader step
\* that reads one panics with a parse error.  While the loader runs, and
\* after it has panicked, no instruction has run, the stack is empty and
\* nothing has been written.
ParseErrorBeforeExecution ==
    /\ [](pc = "start" => BadLines = {})
    /\ []((pc = "parse" \/ fault \in ParseErrors) =>
            /\ out = <<>>
            /\ stack = <<>>
            /\ program_instructions = <<>>
            /\ ic = 0
            /\ fault \in ParseErrors =>
                  /\ pc = "panicked"
                  /\ IsInstructionLine(line)
                  /\ FailsToDecode(line))
    /\ [][(Parsing /\ IsInstructionLine(line) /\ FailsToDecode(line)) =>
             pc' = "panicked" /\ fault' \in ParseErrors
       ]_vars
    /\ [][pc' \in {"run", "exited"} => pc \in {"start", "run"}]_vars

\* The loader has already stored a main section and panics on an unknown
\* mnemonic in a later section.
ParseErrorInLaterSectionWitness ==
    /\ pc = "panicked"
    /\ fault = "UnknownInstruction"
    /\ HasMain
    /\ current_section.some
    /\ out = <<>>
    /\ program_instructions = <<>>

\* The number of lines at the front of ls that are not section headers.
RECURSIVE RunLength(_)
RunLength(ls) ==
    IF ls = <<>> THEN 0
    ELSE IF IsSectionHeader(ls[1]) THEN 0
    ELSE 1 + RunLength(Tail(ls))

\* The sections of the lines ls, none of them skipped, read under the
\* section name given: one section for each maximal run of instruction
\* lines, named by the header that comes last before the run.
RECURSIVE SectionsFrom(_, _)
SectionsFrom(ls, name) ==
    IF ls = <<>> THEN <<>>
    ELSE IF IsSectionHeader(ls[1])
    THEN SectionsFrom(Tail(ls), TrimMatches(ls[1], ":"))
    ELSE LET n == RunLength(ls)
         IN  <<Section(name, [i \in 1..n |-> DecodeLine(ls[i]).instr])>>
                \o SectionsFrom(SubSeq(ls, n + 1, Len(ls)), name)

\* C16: when loading ends the section table is, in source order, one
\* section for each maximal run of instruction lines between section
\* headers, holding exactly the instructions of those lines in order and
\* named by the most recent header before the run, main when there is
\* none; comment and blank lines contribute nothing, and every instruction
\* line is in exactly the section of its run.
LoaderSections ==
    /\ [](pc = "start" =>
            /\ program =
                  SectionsFrom(SelectSeq(lines, LAMBDA l : ~IsSkipped(l)),
                               MainName)
            /\ instructions = <<>>)
    /\ [][pc = "parse" => (pc' = "start" <=> ln = Len(lines))]_vars

\* Loading has ended with two sections: the instructions before the first
\* header as main, and the instructions after a header under its name.
TwoSectionsLoadedWitness ==
    /\ pc = "start"
    /\ Len(program) >= 2
    /\ ~IsSectionHeader(lines[1])
    /\ ~IsSkipped(lines[1])
    /\ program[1].name = MainName
    /\ program[1].instructions[1] = DecodeLine(lines[1]).instr
    /\ program[2].name # MainName
    /\ \E i \in 2..Len(lines) :
          /\ IsSectionHeader(lines[i])
          /\ program[2].name = TrimMatches(lines[i], ":")

\* The faults an executing instruction can hit.
RuntimeFaults ==
    {"StackUnderflow", "TypeMismatch", "DivisionByZero", "UnknownLabel",
     "ArithmeticOverflow"}

\* C17: exited and panicked are terminal: no step leaves them, so nothing
\* is executed or written afterwards.  A run becomes exited exactly by
\* executing exit or by finding the cursor at the end of the working list,
\* with the cursor, the working list, the stack and the output as they
\* were, so the instructions after an executed exit are never run.  It
\* becomes panicked exactly when a fault is recorded, and from a running
\* state only by the instruction at the cursor, which stays there.
TerminalStates ==
    /\ [][pc \notin {"exited", "panicked"}]_vars
    /\ [][pc' = "exited" <=>
             /\ pc = "run"
             /\ IF ic < Len(program_instructions)
                THEN instruction.op = "Exit"
                ELSE TRUE
       ]_vars
    /\ [][pc' = "exited" =>
             /\ ic' = ic
             /\ program_instructions' = program_instructions
             /\ stack' = stack
             /\ Printed' = Printed
             /\ fault' = "None"
       ]_vars
    /\ []((pc = "panicked") = (fault # "None"))
    /\ [][(pc = "run" /\ pc' = "panicked") =>
             /\ Fetching
             /\ fault' \in RuntimeFaults
             /\ ic' = ic
             /\ program_instructions' = program_instructions
             /\ Printed' = Printed
       ]_vars

\* An exit has been executed with instructions still behind it in the
\* working list.
ExitBeforeEndWitness ==
    /\ pc = "exited"
    /\ ic + 1 < Len(program_instructions)
    /\ program_instructions[ic + 1].op = "Exit"
    /\ ic > 0

\* C18: drop on an empty stack is no fault: the stack stays empty, the run
\* keeps running and the cursor advances by one.  On a non-empty stack
\* drop removes the top and nothing else.  In both cases the working list
\* is unchanged and nothing is printed.
DropNeverFaults ==
    [][Executing("Drop") =>
          /\ pc' = "run"
          /\ fault' = "None"
          /\ ic' = ic + 1
          /\ program_instructions' = program_instructions
          /\ Printed' = Printed
          /\ IF stack = <<>>
             THEN stack' = <<>>
             ELSE /\ Len(stack') = Len(stack) - 1
                  /\ \A i \in 1..Len(stack') : stack'[i] = stack[i]
      ]_vars

\* The first instruction of main is a drop and has been executed on the
\* empty stack; the run goes on.
DropOnEmptyWitness ==
    /\ pc = "run"
    /\ ic = 1
    /\ program_instructions[1].op = "Drop"
    /\ stack = <<>>
    /\ fault = "None"

\* C19 as stated: the cursor never decreases, the instructions below the
\* cursor are never changed, and a loop is always a growth of the working
\* list: a splice that leaves the run on the very instruction it has just
\* executed has made the list longer.
LoopsOnlyByGrowth ==
    [][/\ ic' >= ic
       /\ \A j \in 1..ic : program_instructions'[j] = program_instructions[j]
       /\ (/\ Fetching
           /\ pc' = "run"
           /\ ic' = ic
           /\ program_instructions'[ic + 1] = instruction) =>
             Len(program_instructions') > Len(program_instructions)
      ]_vars

\* C19, amended: the cursor never decreases and moves by at most one, the
\* instructions below the cursor are never changed, and the working list
\* never gets shorter.  A step that keeps running without advancing the
\* cursor is a jump or a taken ifjmp, whose splice rewrites the position at
\* the cursor and shifts what lies after it; it lengthens the list exactly
\* when the section has more than one instruction, so a section that is a
\* single jump to itself loops on a list of constant length.
CursorNeverDecreases ==
    [][/\ ic' \in {ic, ic + 1}
       /\ \A j \in 1..ic : program_instructions'[j] = program_instructions[j]
       /\ Len(program_instructions') >= Len(program_instructions)
       /\ ic' = ic + 1 => program_instructions' = program_instructions
       /\ (pc = "run" /\ pc' = "run" /\ ic' = ic) =>
             /\ instruction.op \in {"Jump", "IfJmp"}
             /\ \E k \in 1..Len(program) :
                   LET S == program[k].instructions
                       W == program_instructions
                   IN  /\ IsFirstNamed(k, instruction.label)
                       /\ S # <<>>
                       /\ Len(program_instructions') = Len(W) + Len(S) - 1
                       /\ \A j \in (ic + 2)..Len(W) :
                             program_instructions'[j + Len(S) - 1] = W[j]
      ]_vars

\* The cursor stands beyond the length main was loaded with: the run has
\* gone on by growth of the working list, the cursor only moving forward.
CursorBeyondMainWitness ==
    /\ pc = "run"
    /\ MainInstructions(program) # <<>>
    /\ ic > Len(MainInstructions(program))
    /\ ic < Len(program_instructions)

\* The instructions a label resolves to: those of the first section of
\* that name, none when no section has it.
SectionOf(label) ==
    IF FindSection(program, label) = 0 THEN <<>>
    ELSE program[FindSection(program, label)].instructions

\* The labels the jumps and ifjmps of a list of instructions name.
Targets(instrs) ==
    {instrs[i].label : i \in {j \in 1..Len(instrs) :
                                 instrs[j].op \in {"Jump", "IfJmp"}}}

\* The labels reachable from a set of labels in at most n more jumps.
RECURSIVE Closure(_, _)
Closure(labels, n) ==
    IF n = 0 THEN labels
    ELSE Closure(labels \cup UNION {Targets(SectionOf(l)) : l \in labels},
                 n - 1)

\* No section reachable from main can reach itself through jump and ifjmp
\* labels.
Acyclic ==
    \A l \in Closure({MainName}, Len(program)) :
       l \notin Closure(Targets(SectionOf(l)), Len(program))

\* The number of steps an instruction can still cause: one, and for a jump
\* or ifjmp those of the section it names as well.
RECURSIVE Weight(_, _)
RECURSIVE TotalWeight(_, _)
Weight(instr, depth) ==
    IF instr.op \in {"Jump", "IfJmp"} /\ depth > 0
    THEN 1 + TotalWeight(SectionOf(instr.label), depth - 1)
    ELSE 1

TotalWeight(instrs, depth) ==
    IF instrs = <<>> THEN 0
    ELSE Weight(instrs[1], depth) + TotalWeight(Tail(instrs), depth)

\* The steps the instructions from the cursor on can still cause.
Measure ==
    TotalWeight(Remaining, Len(program))

MeasureNext ==
    TotalWeight(RemainingNext, Len(program))

\* C20: when the label graph reachable from main is acyclic, every step of
\* the run that does not end it strictly decreases a natural number, the
\* steps the instructions from the cursor on can still cause, and a jump
\* or ifjmp at the cursor can always be executed: the run ends, exited or
\* panicked, after at most the weight of main steps.  A main without jump
\* and ifjmp is never altered and the cursor stays within it, so such a
\* run executes at most as many instructions as main contains.
TerminatesWhenAcyclic ==
    /\ [][(pc = "run" /\ pc' = "run" /\ Acyclic) =>
             MeasureNext < Measure
       ]_vars
    /\ []((pc = "run" /\ Acyclic) =>
            /\ Measure <= TotalWeight(MainInstructions(program), Len(program))
            /\ IF Fetching
               THEN instruction.op \in {"Jump", "IfJmp"} =>
                       ENABLED (ExecJump \/ ExecIfJmp)
               ELSE ENABLED LoopEnd)
    /\ []((pc \in {"run", "exited"}
             /\ Targets(MainInstructions(program)) = {}) =>
            /\ program_instructions = MainInstructions(program)
            /\ ic <= Len(MainInstructions(program)))

\* A run over an acyclic label graph has executed a jump, run the section
\* and what followed the jump, and has ended at the end of the list.
AcyclicRunEndedWitness ==
    /\ pc = "exited"
    /\ Acyclic
    /\ ic = Len(program_instructions)
    /\ Len(program_instructions) > Len(MainInstructions(program))

(***************************************************************************)
(* Two invocations on the same file: first without --debug, then with it.  *)
(* The first records the states it goes through in reference; the second   *)
(* consumes the record as it goes.                                         *)
(***************************************************************************)
\* What a run is observed by: the control state, the fault, the cursor,
\* the working list, the stack and the output of print.
Core ==
    [pc |-> pc, fault |-> fault, ic |-> ic, work |-> program_instructions,
     stack |-> stack, printed |-> Printed]

\* The state of the invocation is the one the record stands on: its last
\* entry while recording, its first entry while replaying.
Recorded ==
    IF reference = <<>> THEN FALSE
    ELSE IF debug THEN Core = reference[1]
    ELSE Core = reference[Len(reference)]

\* The observer: without --debug the new state is appended to the record,
\* with --debug the entry the run has left is removed from its front.
Record ==
    /\ ~Recorded
    /\ reference' = IF debug /\ reference # <<>>
                    THEN Tail(reference)
                    ELSE Append(reference, Core)
    /\ UNCHANGED <<lines, ln, program, current_section, instructions, stack,
                   program_instructions, ic, debug, overflow_checks, out, pc,
                   fault>>

\* One step of interpret, taken once the state before it is recorded.
ObservedStep ==
    Recorded /\ Next

\* The run has ended, or it stands on a jump that the bounds of the model
\* do not let it execute, or on a jump that leaves the working list as it
\* is.
Halted ==
    \/ pc \in {"exited", "panicked"}
    \/ /\ Fetching
       /\ instruction.op \in {"Jump", "IfJmp"}
       /\ \/ ~ENABLED (ExecJump \/ ExecIfJmp)
          \/ ENABLED ((ExecJump \/ ExecIfJmp)
                         /\ pc' = pc
                         /\ ic' = ic
                         /\ program_instructions' = program_instructions)

\* The first invocation can go no further: the same file is run again by
\* the same build, now with --debug.
Restart ==
    /\ ~debug
    /\ Recorded
    /\ Halted
    /\ debug' = TRUE
    /\ ln' = 0
    /\ program' = <<>>
    /\ current_section' = None
    /\ instructions' = <<>>
    /\ stack' = <<>>
    /\ program_instructions' = <<>>
    /\ ic' = 0
    /\ out' = <<>>
    /\ pc' = "parse"
    /\ fault' = "None"
    /\ UNCHANGED <<lines, overflow_checks, reference>>

DebugSources ==
    OperandSources \cup ControlSources \cup LoaderSources \cup {LoopSource}

DebugInit ==
    /\ Init
    /\ lines \in DebugSources
    /\ debug = FALSE

DebugNext ==
    \/ ObservedStep
    \/ Record
    \/ Restart

DebugSpec ==
    DebugInit /\ [][DebugNext]_vars

\* C14: the run with --debug goes through the states the run of the same
\* file without it went through, in the same order: at every moment its
\* cursor, working list, stack, printed output, control state and fault
\* are those of the entry of the record it stands on or of the next one;
\* and when it has ended, exited or panicked, it stands on the last entry
\* of the record, the state in which the run without --debug ended.  It
\* does not stop before that: while entries remain, a jump or ifjmp at its
\* cursor can be executed (unless the bound on the output of the model is
\* reached; every other instruction can always be).
DebugDoesNotInterfere ==
    debug =>
       /\ reference # <<>>
       /\ \/ Core = reference[1]
          \/ Len(reference) >= 2 /\ Core = reference[2]
       /\ (pc \in {"exited", "panicked"} /\ Core = reference[1]) =>
             Len(reference) = 1
       /\ (Len(reference) >= 2 /\ Core = reference[1]) =>
             \/ ~Fetching
             \/ instruction.op \notin {"Jump", "IfJmp"}
             \/ ENABLED (ExecJump \/ ExecIfJmp)
             \/ Len(out) + 2 > MaxOut

\* A run with --debug has written debug lines and printed values, and has
\* exited in the state the run without --debug exited in.
DebugRunEndedWitness ==
    /\ debug
    /\ pc = "exited"
    /\ reference = <<Core>>
    /\ ic >= 2
    /\ Printed # <<>>
    /\ \E w \in 1..Len(out) : out[w].debug

====
